---- MODULE Spec2Model ----
(***************************************************************************)
(* Model of src/store/AuthContext.tsx: the AuthProvider component, its     *)
(* onAuthStateChanged subscription and the signup / login / logout         *)
(* operations.  Every `await` of the source is a suspension point: the     *)
(* external call is served (by the identity provider or the document       *)
(* store) in one step and the async function resumes in a later step, so   *)
(* handlers and operations overlap exactly where the source awaits.        *)
(***************************************************************************)
EXTENDS Integers, Sequences, FiniteSets, TLC

\* Bounds of the model.
MaxEvents == 3      \* provider state-change events over a run
MaxOps == 2         \* signup/login/logout calls over a run
MaxTime == 1        \* new Date() reads a value in 0..MaxTime

\* Values.
Ids == {"u1", "u2"}                 \* provider uids
None == "none"                      \* firebaseUser === null
Undef == "undefined"                \* a field that is not set
NoStamp == << >>                    \* no createdAt field
Email == [u \in Ids |-> IF u = "u1" THEN "a@x" ELSE "b@x"]
UidOf(e) == CHOOSE u \in Ids : Email[u] = e
ProfileInputs == {<<"biz", "site">>}   \* businessName, website of signup

\* An object with the fields of User and of a 'users' document.
Rec(id, email, biz, site, role, status, created) ==
  [id |-> id, email |-> email, businessName |-> biz, website |-> site,
   role |-> role, status |-> status, createdAt |-> created]

Null == [isNull |-> TRUE]           \* user === null
NoDoc == [exists |-> FALSE]         \* userDoc.data() === undefined

\* The identity of a Session, None for user === null.
SessionId(u) == IF u = Null THEN None ELSE u.id

\* new Date().toISOString()
ToISOString(t) == <<t>>

\* a || b
OrElse(a, b) == IF a = Undef THEN b ELSE a

VARIABLES
  user, loading, initializing,   \* the three useState cells
  mounted,                       \* the effect's subscription is active
  location,                      \* last navigate() target
  store,                         \* the 'users' collection
  accounts, cur,                 \* provider: accounts, auth.currentUser
  pending,                       \* events notified, callback not yet run
  handlers,                      \* invocations of the subscription callback
  ops,                           \* calls of signup / login / logout
  userBy,                        \* who called setUser last
  loggedOut,                     \* a logout ended a Session, no sign-in since
  answer                         \* what the query of a consumer that is
                                 \* rendering returned, << >> otherwise

vars == <<user, loading, initializing, mounted, location, store, accounts,
          cur, pending, handlers, ops, userBy, loggedOut, answer>>

InitDocs(u) ==
  { NoDoc,
    Rec(Undef, Email[u], "biz", "site", "admin", "suspended", ToISOString(0)),
    Rec(Undef, Email[u], Undef, Undef, Undef, Undef, NoStamp) }

\* useState initial values (lines 34-36) and the registration of the
\* subscription, which reports the persisted identity once at startup.
Init ==
  /\ user = Null
  /\ loading = TRUE
  /\ initializing = TRUE
  /\ mounted = TRUE
  /\ location = "start"
  /\ accounts \in {{}, {"u1"}}
  /\ store \in [Ids -> UNION {InitDocs(u) : u \in Ids}]
  /\ \A u \in Ids : /\ store[u] \in InitDocs(u)
                    /\ u \notin accounts => store[u] = NoDoc
  /\ cur \in accounts \cup {None}
  /\ pending = <<cur>>
  /\ handlers = << >>
  /\ ops = << >>
  /\ userBy = "init"
  /\ loggedOut = FALSE
  /\ answer = << >>

\* Mutant of SetState: the update is applied after the unmount too.
SetState_Always(old, new) == new

\* A setState call: dropped once the component is unmounted.
SetState(old, new) == IF mounted THEN new ELSE old

\* The provider changes auth.currentUser and notifies the subscription
\* when the identity changed.
EventBudget == Len(handlers) + Len(pending) < MaxEvents
Notify(v) ==
  /\ cur' = v
  /\ pending' = IF v # cur /\ mounted THEN Append(pending, v) ELSE pending

SetPc(seq, i, pc) == [seq EXCEPT ![i].pc = pc]

\* Mutant of UserFromDoc: role and status are copied without their defaults.
UserFromDoc_NoDefaults(fu, userData) ==
  Rec(fu, Email[fu], userData.businessName, userData.website,
      userData.role, userData.status, NoStamp)

\* User built from a document that exists (lines 47-54, 129-136).
UserFromDoc(fu, userData) ==
  Rec(fu, Email[fu], userData.businessName, userData.website,
      OrElse(userData.role, "user"), OrElse(userData.status, "active"),
      NoStamp)

\* Mutant of NewUser: the default record is built without its status.
NewUser_NoStatus(fu, t) ==
  Rec(fu, Email[fu], Undef, Undef, "user", Undef, ToISOString(t))

\* newUser of the callback (lines 57-63).
NewUser(fu, t) ==
  Rec(fu, Email[fu], Undef, Undef, "user", "active", ToISOString(t))

\* Mutant of SignupData: the record signup writes carries the admin role.
SignupData_Admin(fu, biz, site, t) ==
  Rec(Undef, Email[fu], biz, site, "admin", "active", ToISOString(t))

\* userData of signup (lines 88-95).
SignupData(fu, biz, site, t) ==
  Rec(Undef, Email[fu], biz, site, "user", "active", ToISOString(t))

\* The user signup installs (lines 100-107).
SignupUser(fu, biz, site) ==
  Rec(fu, Email[fu], biz, site, "user", "active", NoStamp)

----------------------------------------------------------------------------
\* The subscription callback (lines 40-77).

\* Mutant of HandlerFinally: the finally block clears loading only.
HandlerFinally_KeepsGate ==
  /\ loading' = SetState(loading, FALSE)
  /\ UNCHANGED initializing

\* finally of the callback (lines 73-76)
HandlerFinally ==
  /\ loading' = SetState(loading, FALSE)
  /\ initializing' = SetState(initializing, FALSE)

\* The callback is invoked with the next event and runs to its first await:
\* to getDoc for an identity, to its end for null (line 68).
Deliver ==
  /\ mounted
  /\ pending # << >>
  /\ pending' = Tail(pending)
  /\ LET fu == Head(pending) IN
       IF fu = None
       THEN /\ handlers' = Append(handlers, [fu |-> fu, pc |-> "absent", data |-> NoDoc])
            /\ user' = SetState(user, Null)
            /\ userBy' = SetState(userBy, "handler")
            /\ HandlerFinally
       ELSE /\ handlers' = Append(handlers, [fu |-> fu, pc |-> "getDoc", data |-> NoDoc])
            /\ UNCHANGED <<user, userBy, loading, initializing>>
  /\ UNCHANGED <<mounted, location, store, accounts, cur, ops, loggedOut>>
  /\ answer = << >> /\ answer' = << >>

\* The store answers the callback's getDoc (line 43) with the document.
HandlerGetDocReturns(i) ==
  /\ handlers[i].pc = "getDoc"
  /\ handlers' = [handlers EXCEPT ![i].pc = "getOk", ![i].data = store[handlers[i].fu]]
  /\ UNCHANGED <<user, loading, initializing, mounted, location, store, accounts,
                 cur, pending, ops, userBy, loggedOut>>
  /\ answer = << >> /\ answer' = << >>

\* Mutant of HandlerCatch: the catch block logs but keeps the Session.
HandlerCatch_KeepsUser(i) ==
  /\ handlers[i].pc \in {"getDoc", "setDoc"}
  /\ handlers' = [handlers EXCEPT ![i].pc = "failed", ![i].data = NoDoc]
  /\ HandlerFinally
  /\ UNCHANGED <<user, userBy, mounted, location, store, accounts, cur,
                 pending, ops, loggedOut>>
  /\ answer = << >> /\ answer' = << >>

\* getDoc or setDoc of the callback fails (StoreError): catch and finally
\* (lines 70-76).
HandlerCatch(i) ==
  /\ handlers[i].pc \in {"getDoc", "setDoc"}
  /\ handlers' = [handlers EXCEPT ![i].pc = "failed", ![i].data = NoDoc]
  /\ user' = SetState(user, Null)
  /\ userBy' = SetState(userBy, "handler")
  /\ HandlerFinally
  /\ UNCHANGED <<mounted, location, store, accounts, cur, pending, ops,
                 loggedOut>>
  /\ answer = << >> /\ answer' = << >>

\* The callback resumes after getDoc (lines 44-66).
HandlerAfterGetDoc(i) ==
  /\ handlers[i].pc = "getOk"
  /\ LET h == handlers[i] IN
       IF h.data # NoDoc
       THEN /\ handlers' = SetPc(handlers, i, "adopted")
            /\ user' = SetState(user, UserFromDoc(h.fu, h.data))
            /\ userBy' = SetState(userBy, "handler")
            /\ HandlerFinally
       ELSE /\ \E t \in 0..MaxTime :
                 handlers' = [handlers EXCEPT ![i].pc = "setDoc",
                                              ![i].data = NewUser(h.fu, t)]
            /\ UNCHANGED <<user, userBy, loading, initializing>>
  /\ UNCHANGED <<mounted, location, store, accounts, cur, pending, ops,
                 loggedOut>>
  /\ answer = << >> /\ answer' = << >>

\* The store answers the callback's setDoc (line 64).
HandlerSetDocReturns(i) ==
  /\ handlers[i].pc = "setDoc"
  /\ handlers' = SetPc(handlers, i, "setOk")
  /\ store' = [store EXCEPT ![handlers[i].fu] = handlers[i].data]
  /\ UNCHANGED <<user, loading, initializing, mounted, location, accounts,
                 cur, pending, ops, userBy, loggedOut>>
  /\ answer = << >> /\ answer' = << >>

\* The callback resumes after setDoc (line 65).
HandlerAfterSetDoc(i) ==
  /\ handlers[i].pc = "setOk"
  /\ handlers' = SetPc(handlers, i, "created")
  /\ user' = SetState(user, handlers[i].data)
  /\ userBy' = SetState(userBy, "handler")
  /\ HandlerFinally
  /\ UNCHANGED <<mounted, location, store, accounts, cur, pending, ops,
                 loggedOut>>
  /\ answer = << >> /\ answer' = << >>

----------------------------------------------------------------------------
\* signup, login and logout (lines 82-160).

NewOp(kind, target, biz, site) ==
  [kind |-> kind, target |-> target, biz |-> biz, site |-> site,
   pc |-> "auth", data |-> NoDoc, err |-> "none", io |-> 0, nav |-> FALSE,
   result |-> Null]

\* The operations reach their callers through the context value, which is
\* rendered only once initializing is false (lines 167-179).
CanCall == mounted /\ ~initializing /\ Len(ops) < MaxOps

\* try { setLoading(true); await <provider call> (lines 84-85, 120-121, 150-151)
Call(kind, target, biz, site) ==
  /\ CanCall
  /\ ops' = Append(ops, NewOp(kind, target, biz, site))
  /\ loading' = SetState(loading, TRUE)
  /\ UNCHANGED <<user, initializing, mounted, location, store, accounts, cur,
                 pending, handlers, userBy, loggedOut>>
  /\ answer = << >> /\ answer' = << >>

SignupCall(email, biz, site) == Call("signup", UidOf(email), biz, site)
LoginCall(email) == Call("login", UidOf(email), Undef, Undef)
\* (for logout, target records the identity of the Session at the call)
LogoutCall == Call("logout", SessionId(user), Undef, Undef)

\* The provider accepts: the identity becomes v and the subscription is
\* notified of the change.
AuthAccepts(j, v) ==
  /\ v = cur \/ ~mounted \/ EventBudget
  /\ ops' = SetPc(ops, j, "authOk")
  /\ Notify(v)
  /\ loggedOut' = IF v # None THEN FALSE ELSE loggedOut

\* createUserWithEmailAndPassword settles (line 85).
CreateUserReturns(j) ==
  /\ ops[j].kind = "signup" /\ ops[j].pc = "auth"
  /\ ops[j].target \notin accounts
  /\ accounts' = accounts \cup {ops[j].target}
  /\ AuthAccepts(j, ops[j].target)
  /\ UNCHANGED <<user, loading, initializing, mounted, location, store,
                 handlers, userBy>>
  /\ answer = << >> /\ answer' = << >>

\* signInWithEmailAndPassword settles (line 121).
SignInReturns(j) ==
  /\ ops[j].kind = "login" /\ ops[j].pc = "auth"
  /\ ops[j].target \in accounts
  /\ AuthAccepts(j, ops[j].target)
  /\ UNCHANGED accounts
  /\ UNCHANGED <<user, loading, initializing, mounted, location, store,
                 handlers, userBy>>
  /\ answer = << >> /\ answer' = << >>

\* signOut settles (line 151).
SignOutReturns(j) ==
  /\ ops[j].kind = "logout" /\ ops[j].pc = "auth"
  /\ AuthAccepts(j, None)
  /\ UNCHANGED accounts
  /\ UNCHANGED <<user, loading, initializing, mounted, location, store,
                 handlers, userBy>>
  /\ answer = << >> /\ answer' = << >>

\* Mutant of OpCatch: the error is rethrown with no finally block.
OpCatch_NoFinally(j) ==
  /\ ops[j].pc \in {"auth", "setDoc", "getDoc"}
  /\ ops' = [ops EXCEPT ![j].pc = "rejected", ![j].data = NoDoc,
                        ![j].err = IF ops[j].pc = "auth" THEN "ProviderError"
                                   ELSE "StoreError"]
  /\ UNCHANGED <<user, loading, initializing, mounted, location, store,
                 accounts, cur, pending, handlers, userBy, loggedOut>>
  /\ answer = << >> /\ answer' = << >>

\* Mutant of OpCatch: the catch block also signs the user out locally.
OpCatch_ClearsUser(j) ==
  /\ ops[j].pc \in {"auth", "setDoc", "getDoc"}
  /\ ops' = [ops EXCEPT ![j].pc = "rejected", ![j].data = NoDoc,
                        ![j].err = IF ops[j].pc = "auth" THEN "ProviderError"
                                   ELSE "StoreError"]
  /\ user' = SetState(user, Null)
  /\ loading' = SetState(loading, FALSE)
  /\ UNCHANGED <<initializing, mounted, location, store, accounts, cur,
                 pending, handlers, userBy, loggedOut>>
  /\ answer = << >> /\ answer' = << >>

\* The awaited call fails, with a ProviderError from the provider or a
\* StoreError from the store: catch { throw error } finally
\* { setLoading(false) } (lines 110-115, 140-145, 154-159).
OpCatch(j) ==
  /\ ops[j].pc \in {"auth", "setDoc", "getDoc"}
  /\ ops' = [ops EXCEPT ![j].pc = "rejected", ![j].data = NoDoc,
                        ![j].err = IF ops[j].pc = "auth" THEN "ProviderError"
                                   ELSE "StoreError"]
  /\ loading' = SetState(loading, FALSE)
  /\ UNCHANGED <<user, initializing, mounted, location, store, accounts, cur,
                 pending, handlers, userBy, loggedOut>>
  /\ answer = << >> /\ answer' = << >>

\* signup resumes after createUser: builds userData, awaits setDoc
\* (lines 86-97).
SignupAfterCreateUser(j) ==
  /\ ops[j].kind = "signup" /\ ops[j].pc = "authOk"
  /\ \E t \in 0..MaxTime :
       ops' = [ops EXCEPT ![j].pc = "setDoc", ![j].io = @ + 1,
                          ![j].data = SignupData(ops[j].target, ops[j].biz,
                                                 ops[j].site, t)]
  /\ UNCHANGED <<user, loading, initializing, mounted, location, store,
                 accounts, cur, pending, handlers, userBy, loggedOut>>
  /\ answer = << >> /\ answer' = << >>

\* The store answers signup's setDoc (line 97).
SignupSetDocReturns(j) ==
  /\ ops[j].kind = "signup" /\ ops[j].pc = "setDoc"
  /\ ops' = [ops EXCEPT ![j].pc = "setOk", ![j].data = NoDoc]
  /\ store' = [store EXCEPT ![ops[j].target] = ops[j].data]
  /\ UNCHANGED <<user, loading, initializing, mounted, location, accounts,
                 cur, pending, handlers, userBy, loggedOut>>
  /\ answer = << >> /\ answer' = << >>

\* Mutant of SignupAfterSetDoc: loading is cleared only in the catch block.
SignupAfterSetDoc_NoFinally(j) ==
  /\ ops[j].kind = "signup" /\ ops[j].pc = "setOk"
  /\ ops' = [ops EXCEPT ![j].pc = "resolved", ![j].nav = TRUE]
  /\ user' = SetState(user, SignupUser(ops[j].target, ops[j].biz, ops[j].site))
  /\ userBy' = SetState(userBy, "signup")
  /\ loggedOut' = SetState(loggedOut, FALSE)
  /\ location' = "/business"
  /\ UNCHANGED <<loading, initializing, mounted, store, accounts, cur,
                 pending, handlers>>
  /\ answer = << >> /\ answer' = << >>

\* signup resumes after setDoc: setUser, navigate, finally (lines 100-115).
SignupAfterSetDoc(j) ==
  /\ ops[j].kind = "signup" /\ ops[j].pc = "setOk"
  /\ ops' = [ops EXCEPT ![j].pc = "resolved", ![j].nav = TRUE]
  /\ user' = SetState(user, SignupUser(ops[j].target, ops[j].biz, ops[j].site))
  /\ userBy' = SetState(userBy, "signup")
  /\ loggedOut' = SetState(loggedOut, FALSE)
  /\ location' = "/business"
  /\ loading' = SetState(loading, FALSE)
  /\ UNCHANGED <<initializing, mounted, store, accounts, cur, pending,
                 handlers>>
  /\ answer = << >> /\ answer' = << >>

\* login resumes after signIn: awaits getDoc (lines 122-125).
LoginAfterSignIn(j) ==
  /\ ops[j].kind = "login" /\ ops[j].pc = "authOk"
  /\ ops' = [ops EXCEPT ![j].pc = "getDoc", ![j].io = @ + 1]
  /\ UNCHANGED <<user, loading, initializing, mounted, location, store,
                 accounts, cur, pending, handlers, userBy, loggedOut>>
  /\ answer = << >> /\ answer' = << >>

\* The store answers login's getDoc (line 125).
LoginGetDocReturns(j) ==
  /\ ops[j].kind = "login" /\ ops[j].pc = "getDoc"
  /\ ops' = [ops EXCEPT ![j].pc = "getOk", ![j].data = store[ops[j].target]]
  /\ UNCHANGED <<user, loading, initializing, mounted, location, store,
                 accounts, cur, pending, handlers, userBy, loggedOut>>
  /\ answer = << >> /\ answer' = << >>

\* The state login publishes once getDoc has returned: the user built from the
\* document if it exists, else the user as it is (lines 128-137).
LoginUser(j) ==
  IF ops[j].data # NoDoc
  THEN SetState(user, UserFromDoc(ops[j].target, ops[j].data))
  ELSE user

\* Mutant of LoginAfterGetDoc: the user built by login carries the time of
\* the login.
LoginAfterGetDoc_Stamps(j) ==
  /\ ops[j].kind = "login" /\ ops[j].pc = "getOk"
  /\ \E t \in 0..MaxTime :
       user' = IF ops[j].data # NoDoc
               THEN [LoginUser(j) EXCEPT !.createdAt = ToISOString(t)]
               ELSE user
  /\ ops' = [ops EXCEPT ![j].pc = "resolved", ![j].nav = TRUE,
                        ![j].result = user']
  /\ userBy' = IF ops[j].data # NoDoc THEN "login" ELSE userBy
  /\ loggedOut' = IF ops[j].data # NoDoc THEN FALSE ELSE loggedOut
  /\ location' = "/business"
  /\ loading' = SetState(loading, FALSE)
  /\ UNCHANGED <<initializing, mounted, store, accounts, cur, pending,
                 handlers>>
  /\ answer = << >> /\ answer' = << >>

\* Mutant of LoginAfterGetDoc: a missing document clears the user.
LoginAfterGetDoc_ClearsUser(j) ==
  /\ ops[j].kind = "login" /\ ops[j].pc = "getOk"
  /\ user' = IF ops[j].data # NoDoc THEN LoginUser(j) ELSE Null
  /\ ops' = [ops EXCEPT ![j].pc = "resolved", ![j].nav = TRUE,
                        ![j].result = user']
  /\ userBy' = SetState(userBy, "login")
  /\ loggedOut' = SetState(loggedOut, FALSE)
  /\ location' = "/business"
  /\ loading' = SetState(loading, FALSE)
  /\ UNCHANGED <<initializing, mounted, store, accounts, cur, pending,
                 handlers>>
  /\ answer = << >> /\ answer' = << >>

\* login resumes after getDoc: setUser if the document exists, navigate,
\* finally (lines 126-145).  result keeps the user the call left behind.
LoginAfterGetDoc(j) ==
  /\ ops[j].kind = "login" /\ ops[j].pc = "getOk"
  /\ ops' = [ops EXCEPT ![j].pc = "resolved", ![j].nav = TRUE,
                        ![j].result = LoginUser(j)]
  /\ IF ops[j].data # NoDoc
     THEN /\ user' = LoginUser(j)
          /\ userBy' = SetState(userBy, "login")
          /\ loggedOut' = SetState(loggedOut, FALSE)
     ELSE UNCHANGED <<user, userBy, loggedOut>>
  /\ location' = "/business"
  /\ loading' = SetState(loading, FALSE)
  /\ UNCHANGED <<initializing, mounted, store, accounts, cur, pending,
                 handlers>>
  /\ answer = << >> /\ answer' = << >>

\* logout resumes after signOut: setUser(null), navigate, finally
\* (lines 152-159).
LogoutAfterSignOut(j) ==
  /\ ops[j].kind = "logout" /\ ops[j].pc = "authOk"
  /\ ops' = [ops EXCEPT ![j].pc = "resolved", ![j].nav = TRUE]
  /\ user' = SetState(user, Null)
  /\ userBy' = SetState(userBy, "logout")
  /\ loggedOut' = (mounted /\ cur = None /\ ops[j].target # None
                     /\ SessionId(user) = ops[j].target)
  /\ location' = "/"
  /\ loading' = SetState(loading, FALSE)
  /\ UNCHANGED <<initializing, mounted, store, accounts, cur, pending,
                 handlers>>
  /\ answer = << >> /\ answer' = << >>

----------------------------------------------------------------------------
\* The environment.

\* The provider reports a change that no operation of this component made
\* (sign-in or sign-out of the same persisted session elsewhere).
ExternalChange(v) ==
  /\ mounted /\ EventBudget
  /\ v # cur
  /\ Notify(v)
  /\ loggedOut' = IF v # None THEN FALSE ELSE loggedOut
  /\ UNCHANGED <<user, loading, initializing, mounted, location, store,
                 accounts, handlers, ops, userBy>>
  /\ answer = << >> /\ answer' = << >>

\* The effect's cleanup: unsubscribe() (line 79).
Teardown ==
  /\ mounted
  /\ mounted' = FALSE
  /\ pending' = << >>
  /\ UNCHANGED <<user, loading, initializing, location, store, accounts, cur,
                 handlers, ops, userBy, loggedOut>>
  /\ answer = << >> /\ answer' = << >>

Next ==
  \/ Deliver
  \/ \E i \in DOMAIN handlers : HandlerGetDocReturns(i)
  \/ \E i \in DOMAIN handlers : HandlerCatch(i)
  \/ \E i \in DOMAIN handlers : HandlerAfterGetDoc(i)
  \/ \E i \in DOMAIN handlers : HandlerSetDocReturns(i)
  \/ \E i \in DOMAIN handlers : HandlerAfterSetDoc(i)
  \/ \E e \in {Email[u] : u \in Ids}, p \in ProfileInputs : SignupCall(e, p[1], p[2])
  \/ \E e \in {Email[u] : u \in Ids} : LoginCall(e)
  \/ LogoutCall
  \/ \E j \in DOMAIN ops : CreateUserReturns(j)
  \/ \E j \in DOMAIN ops : SignInReturns(j)
  \/ \E j \in DOMAIN ops : SignOutReturns(j)
  \/ \E j \in DOMAIN ops : OpCatch(j)
  \/ \E j \in DOMAIN ops : SignupAfterCreateUser(j)
  \/ \E j \in DOMAIN ops : SignupSetDocReturns(j)
  \/ \E j \in DOMAIN ops : SignupAfterSetDoc(j)
  \/ \E j \in DOMAIN ops : LoginAfterSignIn(j)
  \/ \E j \in DOMAIN ops : LoginGetDocReturns(j)
  \/ \E j \in DOMAIN ops : LoginAfterGetDoc(j)
  \/ \E j \in DOMAIN ops : LogoutAfterSignOut(j)
  \/ \E v \in accounts \cup {None} : ExternalChange(v)

\* The component stays mounted.
Spec == Init /\ [][Next]_vars

----------------------------------------------------------------------------
\* The consumers' queries (lines 31, 162-164, 176, 182-188).

\* Mutant of isAdmin: any signed-in user counts as an admin.
isAdmin_AnyUser == user # Null

\* isAdmin (lines 162-164): user?.role === 'admin'
isAdmin == IF user = Null THEN FALSE ELSE user.role = "admin"

\* createContext(undefined) (line 31)
NoContext == [provided |-> FALSE]

\* The value of the Provider (line 176).
ProviderValue ==
  [user |-> user, loading |-> loading, login |-> "login",
   signup |-> "signup", logout |-> "logout", isAdmin |-> "isAdmin"]

\* useContext(AuthContext): the value of the enclosing Provider, the default
\* of createContext where there is none (line 183).
UseContext(where) == IF where = "inside" THEN ProviderValue ELSE NoContext

\* Mutant of useAuth: the context is returned without the check.
UseAuth_NoGuard(where) == <<"return", UseContext(where)>>

\* useAuth (lines 182-188)
UseAuth(where) ==
  LET context == UseContext(where) IN
    IF context = NoContext
    THEN <<"throw", [message |-> "useAuth must be used within an AuthProvider"]>>
    ELSE <<"return", context>>

\* The children, and with them every consumer inside the Provider, are
\* rendered once initializing is false (lines 167-179).
ChildrenRendered == mounted /\ ~initializing

\* A consumer inside the Provider calls isAdmin().  A query runs
\* synchronously within a render: no callback or continuation of the
\* component runs before the consumer is done with the answer.
IsAdminCall ==
  /\ ChildrenRendered
  /\ answer = << >>
  /\ answer' = <<"isAdmin", "inside", isAdmin>>
  /\ UNCHANGED <<user, loading, initializing, mounted, location, store,
                 accounts, cur, pending, handlers, ops, userBy, loggedOut>>

\* A component calls useAuth(), inside the Provider or outside of it.
UseAuthCall(where) ==
  /\ where = "inside" => ChildrenRendered
  /\ answer = << >>
  /\ answer' = <<"useAuth", where, UseAuth(where)>>
  /\ UNCHANGED <<user, loading, initializing, mounted, location, store,
                 accounts, cur, pending, handlers, ops, userBy, loggedOut>>

\* The consumer is done with the answer.
QueryReturns ==
  /\ answer # << >>
  /\ answer' = << >>
  /\ UNCHANGED <<user, loading, initializing, mounted, location, store,
                 accounts, cur, pending, handlers, ops, userBy, loggedOut>>

\* The component driven by the provider's events alone, with consumers that
\* only read: no consumer calls signup, login or logout.
NextQuery ==
  \/ Deliver
  \/ \E i \in DOMAIN handlers : HandlerGetDocReturns(i)
  \/ \E i \in DOMAIN handlers : HandlerCatch(i)
  \/ \E i \in DOMAIN handlers : HandlerAfterGetDoc(i)
  \/ \E i \in DOMAIN handlers : HandlerSetDocReturns(i)
  \/ \E i \in DOMAIN handlers : HandlerAfterSetDoc(i)
  \/ \E v \in accounts \cup {None} : ExternalChange(v)
  \/ IsAdminCall
  \/ \E where \in {"inside", "outside"} : UseAuthCall(where)
  \/ QueryReturns
SpecQuery == Init /\ [][NextQuery]_vars

\* What the event loop runs on its own once it is due: the delivery of a
\* notified event, the settling of an awaited provider or store call, and the
\* continuation after it.  Calls by consumers and changes of the provider's
\* identity from outside are not among them.
Progress ==
  \/ Deliver
  \/ \E i \in DOMAIN handlers :
       \/ HandlerGetDocReturns(i) \/ HandlerCatch(i) \/ HandlerAfterGetDoc(i)
       \/ HandlerSetDocReturns(i) \/ HandlerAfterSetDoc(i)
  \/ \E j \in DOMAIN ops :
       \/ CreateUserReturns(j) \/ SignInReturns(j) \/ SignOutReturns(j)
       \/ OpCatch(j)
       \/ SignupAfterCreateUser(j) \/ SignupSetDocReturns(j)
       \/ SignupAfterSetDoc(j)
       \/ LoginAfterSignIn(j) \/ LoginGetDocReturns(j) \/ LoginAfterGetDoc(j)
       \/ LogoutAfterSignOut(j)

\* The mounted component, whose provider changes identity only through
\* signup, login and logout.
NextLive ==
  \/ Progress
  \/ \E e \in {Email[u] : u \in Ids}, p \in ProfileInputs : SignupCall(e, p[1], p[2])
  \/ \E e \in {Email[u] : u \in Ids} : LoginCall(e)
  \/ LogoutCall

\* The provider delivers the events it notified and every awaited call
\* settles: what is due is eventually run.
SpecLive == Init /\ [][NextLive]_vars /\ WF_vars(Progress)

\* The component may be unmounted at any moment.
NextUnmount == Next \/ Teardown
SpecUnmount == Init /\ [][NextUnmount]_vars

TypeOK ==
  /\ loading \in BOOLEAN /\ initializing \in BOOLEAN /\ mounted \in BOOLEAN
  /\ Len(handlers) + Len(pending) <= MaxEvents
  /\ Len(ops) <= MaxOps

----------------------------------------------------------------------------
\* Vocabulary of the properties.

HandlerDone(h) == h.pc \in {"absent", "adopted", "created", "failed"}
OpDone(o) == o.pc \in {"resolved", "rejected"}
OpInFlight == \E j \in DOMAIN ops : ~OpDone(ops[j])

\* Nothing is notified, running or awaited.
Quiescent ==
  /\ pending = << >>
  /\ \A i \in DOMAIN handlers : HandlerDone(handlers[i])
  /\ ~OpInFlight

Fields == {"id", "email", "businessName", "website", "role", "status", "createdAt"}

\* The fields an object carries, and its role and status.
Shape(r) ==
  [fields |-> {f \in Fields : IF f = "createdAt" THEN r[f] # NoStamp
                                                   ELSE r[f] # Undef},
   role |-> r.role, status |-> r.status]

\* A user and a document agree on the profile fields.
Agree(u, d) ==
  /\ d # NoDoc
  /\ u.businessName = d.businessName
  /\ u.website = d.website
  /\ u.role = OrElse(d.role, "user")
  /\ u.status = OrElse(d.status, "active")

----------------------------------------------------------------------------
\* C1: once every handler and operation has settled, the Session's identity
\* is the identity of the most recent provider event (Absent when that event
\* reported none); the case of a handler that failed on the store is left out.
C1_LastEventWins ==
  (Quiescent /\ handlers # << >> /\ handlers[Len(handlers)].pc # "failed")
    => SessionId(user) = handlers[Len(handlers)].fu

\* C2: once signup(email, pw, biz, site) has resolved, the document of the
\* new identity has businessName = biz, website = site, role = user and
\* status = active.
C2_RegisterRoundTrip ==
  \A j \in DOMAIN ops :
    (ops[j].kind = "signup" /\ ops[j].pc = "resolved") =>
      LET d == store[ops[j].target] IN
        /\ d # NoDoc
        /\ d.businessName = ops[j].biz
        /\ d.website = ops[j].site
        /\ d.role = "user"
        /\ d.status = "active"

\* C3: when nothing is in flight, a present Session and the document of its
\* identity agree on businessName, website, role and status.
C3_SessionMatchesRecord ==
  (Quiescent /\ user # Null) => Agree(user, store[user.id])

\* C4: when a handler replaces a Session that signup or login installed by a
\* Session for the same identity, the new value equals the installed one.
C4_ReResolutionIdempotent ==
  [][(userBy \in {"signup", "login"} /\ userBy' = "handler"
        /\ user # Null /\ user' # Null
        /\ SessionId(user') = SessionId(user))
      => user' = user]_vars

\* C5 as stated: loading is true exactly when an operation is in flight.
C5_LoadingIffInFlight == loading <=> OpInFlight

\* C5 amended: in the mounted component loading is true only while an
\* operation is in flight or while initializing is still true.
C5_LoadingOnlyWhenBusy == (mounted /\ loading) => (OpInFlight \/ initializing)

\* C5 witness: an operation is in flight with loading true after the first
\* event was handled.
C5_Witness ==
  /\ loading /\ ~initializing /\ OpInFlight
  /\ \E i \in DOMAIN handlers : HandlerDone(handlers[i])

\* C6: no step of a login that the provider rejects changes the Session, the
\* store or the location; it issues no store call, does not navigate, ends
\* rejected with the ProviderError and leaves loading false as it settles
\* (in the mounted component).
C6_LoginRejected ==
  [][\A j \in DOMAIN ops' :
       /\ (j \notin DOMAIN ops /\ ops'[j].kind = "login")
            => (user' = user /\ store' = store /\ location' = location)
       /\ (/\ j \in DOMAIN ops /\ ops[j].kind = "login"
           /\ ops[j].pc = "auth" /\ ops'[j].pc = "rejected")
            => /\ user' = user /\ store' = store /\ location' = location
               /\ ops'[j].err = "ProviderError"
               /\ ops'[j].io = 0 /\ ~ops'[j].nav
               /\ (mounted => loading' = FALSE)]_vars

\* C6 witness: a login was rejected by the provider while a Session is present.
C6_Witness ==
  /\ user # Null
  /\ \E j \in DOMAIN ops : /\ ops[j].kind = "login" /\ ops[j].pc = "rejected"
                           /\ ops[j].err = "ProviderError"

\* C7: a signup that the provider rejects ends rejected with the
\* ProviderError without changing the Session, and every step in which a
\* signup settles, resolved or rejected, leaves loading false.
C7_RegisterRejected ==
  [][\A j \in DOMAIN ops :
       /\ (ops[j].kind = "signup" /\ ops[j].pc = "auth" /\ ops'[j].pc = "rejected")
            => (user' = user /\ ops'[j].err = "ProviderError")
       /\ (ops[j].kind = "signup" /\ ~OpDone(ops[j]) /\ OpDone(ops'[j]))
            => (mounted => loading' = FALSE)]_vars

\* C7 witness: one signup was rejected by the provider, another resolved.
C7_Witness ==
  /\ \E j \in DOMAIN ops : /\ ops[j].kind = "signup" /\ ops[j].pc = "rejected"
                           /\ ops[j].err = "ProviderError"
  /\ \E j \in DOMAIN ops : ops[j].kind = "signup" /\ ops[j].pc = "resolved"

\* C8: after a logout has succeeded, and until the provider reports an
\* identity again or an operation installs a Session, the Session is Absent
\* and isAdmin() is false.
C8_LogoutStaysAbsent == loggedOut => (user = Null /\ ~isAdmin)

\* Two handlers of the same identity that both found no document.
Racing(a, b) ==
  /\ a # b
  /\ handlers[a].fu = handlers[b].fu
  /\ handlers[a].pc \in {"setDoc", "setOk", "created"}
  /\ handlers[b].pc \in {"setDoc", "setOk", "created"}

\* C9: of two handlers that both found no document for the same identity,
\* each installs a Session with role = user, status = active and the fields
\* of the other's, and each write leaves a document of that shape.
C9_FirstLoginRace ==
  [][\A a, b \in DOMAIN handlers :
       Racing(a, b) =>
         /\ (handlers[a].pc = "setOk" /\ handlers'[a].pc = "created")
              => (mounted =>
                    /\ Shape(user') = Shape(handlers[b].data)
                    /\ user'.role = "user" /\ user'.status = "active"
                    /\ user'.id = handlers[a].fu)
         /\ (handlers[a].pc = "setDoc" /\ handlers'[a].pc = "setOk")
              => /\ Shape(store'[handlers[a].fu]) = Shape(handlers[b].data)
                 /\ store'[handlers[a].fu].role = "user"
                 /\ store'[handlers[a].fu].status = "active"]_vars

\* C9 witness: both handlers have installed their record, written at
\* different times, and the later writer's record is the stored one.
C9_Witness ==
  \E a, b \in DOMAIN handlers :
    /\ Racing(a, b)
    /\ handlers[a].pc = "created" /\ handlers[b].pc = "created"
    /\ handlers[a].data # handlers[b].data
    /\ user = handlers[b].data
    /\ store[handlers[a].fu] = handlers[a].data

\* C10: the step in which a handler fails on a store call sets the Session to
\* Absent, clears loading and initializing, rejects no operation, and leaves
\* the subscription and its notified events as they were.
C10_HandlerFailure ==
  [][\A i \in DOMAIN handlers :
       (mounted /\ handlers[i].pc # "failed" /\ handlers'[i].pc = "failed") =>
         /\ user' = Null
         /\ loading' = FALSE /\ initializing' = FALSE
         /\ ops' = ops
         /\ mounted' /\ pending' = pending]_vars

\* C10 witness: a handler failed while a Session was present, and a later
\* event was then resolved to a Session.
C10_Witness ==
  \E i, k \in DOMAIN handlers :
    /\ i < k
    /\ handlers[i].pc = "failed"
    /\ handlers[k].pc \in {"adopted", "created"}
    /\ SessionId(user) = handlers[k].fu

\* The state of the component, without the answer to a query.
state == <<user, loading, initializing, mounted, location, store, accounts,
           cur, pending, handlers, ops, userBy, loggedOut>>

\* C11: isAdmin() returns true exactly when the Session is present with the
\* role admin, false for an Absent Session and for the role user, and the
\* call changes no state.
C11_IsAdmin ==
  [][(answer' # << >> /\ answer'[1] = "isAdmin") =>
       /\ answer'[3] = (SessionId(user) # None /\ user.role = "admin")
       /\ SessionId(user) = None => answer'[3] = FALSE
       /\ (SessionId(user) # None /\ user.role = "user") => answer'[3] = FALSE
       /\ UNCHANGED state]_vars

\* C11 witness: isAdmin() has returned true for an admin.
C11_Witness ==
  /\ answer = <<"isAdmin", "inside", TRUE>>
  /\ user.role = "admin"

\* C15: useAuth() outside the Provider throws; inside it returns the current
\* user, the loading flag and the four operations.
C15_UseAuth ==
  [][(answer' # << >> /\ answer'[1] = "useAuth") =>
       /\ answer'[2] = "outside" => answer'[3][1] = "throw"
       /\ answer'[2] = "inside" =>
            /\ answer'[3][1] = "return"
            /\ answer'[3][2].user = user /\ answer'[3][2].loading = loading
            /\ {"login", "signup", "logout", "isAdmin"}
                 \subseteq DOMAIN answer'[3][2]]_vars

\* C15 witness: useAuth() has thrown outside the Provider while a Session is
\* present.
C15_Witness ==
  /\ user # Null
  /\ answer # << >> /\ answer[1] = "useAuth" /\ answer[2] = "outside"
  /\ answer[3][1] = "throw"

-----------------------------------------------------------------------------
\* What the provider renders (lines 167-179): the spinner while initializing,
\* the children with the published value afterwards.
Rendered == IF initializing THEN "placeholder" ELSE "children"

\* The handler of the first provider event has settled.
FirstEventSettled == handlers # << >> /\ HandlerDone(handlers[1])

\* C12: the initializing gate is one-time: initializing is true from start
\* until the handler of the first provider event has settled, the output is the
\* placeholder exactly while initializing is true, and once initializing is
\* false no step makes it true again.
C12_OneTimeGate ==
  [][/\ initializing' <=> ~FirstEventSettled'
     /\ (Rendered' = "placeholder") <=> initializing'
     /\ ~initializing => ~initializing']_vars

-----------------------------------------------------------------------------
\* Login j resolves in this step.
LoginResolves(j) ==
  /\ ops[j].kind = "login" /\ ops[j].pc = "getOk" /\ ops'[j].pc = "resolved"

\* C13: login is idempotent: when a login resolves on a profile record and an
\* earlier login with the same credentials resolved on the same record, the
\* Session after this login is the Session the earlier login left.
C13_LoginIdempotent ==
  [][\A j \in DOMAIN ops :
       (mounted /\ LoginResolves(j) /\ ops[j].data # NoDoc) =>
         \A k \in 1..(j - 1) :
           ( /\ ops[k].kind = "login" /\ ops[k].pc = "resolved"
             /\ ops[k].target = ops[j].target
             /\ ops[k].data = ops[j].data ) => user' = ops[k].result]_vars

\* Two logins with the same credentials have resolved on the same record,
\* and the Session is the one the second left.
C13_Witness ==
  \E j \in DOMAIN ops : \E k \in 1..(j - 1) :
    /\ ops[j].kind = "login" /\ ops[j].pc = "resolved"
    /\ ops[k].kind = "login" /\ ops[k].pc = "resolved"
    /\ ops[k].target = ops[j].target
    /\ ops[j].data # NoDoc /\ ops[k].data = ops[j].data
    /\ user = ops[j].result /\ user # Null

\* C14: a login whose profile record is missing writes nothing and leaves
\* the Session as it was: no step of a login changes the store, and the only
\* step of a login that changes the Session is the one that resolves it on an
\* existing record.
C14_LoginMissingRecord ==
  [][\A j \in DOMAIN ops' :
       ( /\ ops'[j].kind = "login"
         /\ (j \in DOMAIN ops => ops'[j] # ops[j]) ) =>
           /\ store' = store
           /\ user' # user =>
                (j \in DOMAIN ops /\ LoginResolves(j) /\ ops[j].data # NoDoc)]_vars

\* A login has resolved on a missing record while a Session was present.
C14_Witness ==
  \E j \in DOMAIN ops :
    /\ ops[j].kind = "login" /\ ops[j].pc = "resolved" /\ ops[j].data = NoDoc
    /\ ops[j].result # Null /\ user = ops[j].result

-----------------------------------------------------------------------------
\* C16: after the teardown no Session, loading or initializing update is
\* applied and no provider event is handled: the component stays unmounted,
\* the three state cells keep their values whatever settles, no event is
\* queued for the subscription and no handler starts.
C16_TeardownFreezes ==
  [][~mounted =>
       /\ ~mounted'
       /\ user' = user /\ loading' = loading /\ initializing' = initializing
       /\ pending' = << >> /\ Len(handlers') = Len(handlers)]_vars

\* Every operation has settled, the last of them after the teardown: loading
\* still shows the value its call set.
C16_Witness ==
  /\ ~mounted /\ ops # << >> /\ ~OpInFlight /\ loading
  /\ \A i \in DOMAIN handlers : HandlerDone(handlers[i])

-----------------------------------------------------------------------------
\* Handler i adopts the record it read in this step.
HandlerAdopts(i) ==
  handlers[i].pc = "getOk" /\ handlers'[i].pc = "adopted"

\* The defaults of a user built from record d.
DefaultsApplied(u, d) ==
  /\ d.role = Undef => u.role = "user"
  /\ d.status = Undef => u.status = "active"

\* C17: a present Session is complete: its identity is set and its role and
\* status are defined, and a Session built from a record that lacks role or
\* status has role user or status active.
C17_SessionComplete ==
  [][/\ user' # Null =>
          /\ user'.id \in Ids
          /\ user'.role # Undef /\ user'.status # Undef
     /\ \A i \in DOMAIN handlers :
          (mounted /\ HandlerAdopts(i)) => DefaultsApplied(user', handlers[i].data)
     /\ \A j \in DOMAIN ops :
          (mounted /\ LoginResolves(j) /\ ops[j].data # NoDoc) =>
            DefaultsApplied(user', ops[j].data)]_vars

\* The Session was built from a record without role and status.
C17_Witness ==
  /\ user # Null /\ userBy \in {"handler", "login"}
  /\ store[user.id] # NoDoc
  /\ store[user.id].role = Undef /\ store[user.id].status = Undef
  /\ user.role = "user" /\ user.status = "active"

-----------------------------------------------------------------------------
\* The identities whose record this step writes.
Written == {u \in Ids : store'[u] # store[u]}

\* This step installs a user built from a record read with the admin role.
AdoptsAdmin ==
  \/ \E i \in DOMAIN handlers :
       HandlerAdopts(i) /\ handlers[i].data.role = "admin"
  \/ \E j \in DOMAIN ops :
       LoginResolves(j) /\ ops[j].data # NoDoc /\ ops[j].data.role = "admin"

\* C18: no privilege escalation: every record written has role user and
\* status active, the Session gets the admin role only from a record read
\* with that role, and a handler whose read found a record writes nothing.
C18_NoEscalation ==
  [][/\ \A u \in Written :
          store'[u] # NoDoc /\ store'[u].role = "user" /\ store'[u].status = "active"
     /\ (user' # user /\ user' # Null /\ user'.role = "admin") => AdoptsAdmin
     /\ \A i \in DOMAIN handlers :
          (handlers[i].pc = "getOk" /\ handlers[i].data # NoDoc) =>
            /\ handlers'[i].pc \in {"getOk", "adopted"}
            /\ handlers'[i] # handlers[i] => store' = store]_vars

\* An admin Session adopted from a record the module did not write, next to
\* a record written by signup.
C18_Witness ==
  /\ user # Null /\ user.role = "admin" /\ store[user.id].role = "admin"
  /\ \E j \in DOMAIN ops :
       /\ ops[j].kind = "signup" /\ ops[j].pc = "resolved"
       /\ store[ops[j].target].role = "user"

-----------------------------------------------------------------------------
\* Operation j calls navigate in this step.
Navigates(j) == ~ops[j].nav /\ ops'[j].nav

\* C19: navigation happens only on success: an operation navigates only in
\* the step that resolves it, signup and login to the landing view with the
\* Session present for the identity just authenticated, logout to the root
\* view; an operation that rejects has not navigated, and the location
\* changes only when an operation navigates.
C19_NavigationOnSuccess ==
  [][/\ \A j \in DOMAIN ops :
          /\ Navigates(j) =>
               /\ ops'[j].pc = "resolved"
               /\ ops[j].kind \in {"signup", "login"} =>
                    /\ location' = "/business"
                    /\ SessionId(user') = ops[j].target
               /\ ops[j].kind = "logout" => location' = "/"
          /\ ops'[j].pc = "rejected" => ~ops'[j].nav
     /\ location' # location => \E j \in DOMAIN ops : Navigates(j)]_vars

-----------------------------------------------------------------------------
\* C20: the flags are live: initializing eventually becomes false, every
\* started signup, login or logout eventually settles, and loading never
\* stays true for ever.
C20_FlagsLive ==
  /\ <>(~initializing)
  /\ \A j \in 1..MaxOps :
       (j \in DOMAIN ops) ~> (j \in DOMAIN ops /\ OpDone(ops[j]))
  /\ loading ~> ~loading

\* Every operation of a full run has settled, on a failure for one of them,
\* and both flags are false.
C20_Witness ==
  /\ Len(ops) = MaxOps /\ ~OpInFlight
  /\ \E j \in DOMAIN ops : ops[j].pc = "rejected"
  /\ \E i \in DOMAIN handlers : handlers[i].pc = "failed"
  /\ ~loading /\ ~initializing
====
